---- MODULE Spec2Model ----
(* A model of src/index.js, the configure-craft-env command line tool.     *)
(*                                                                         *)
(* A JavaScript string is modelled as a sequence of tokens: a token is a   *)
(* run of characters that the program never looks inside ("app",           *)
(* "SECURITY_KEY="), or a single character where the program or the        *)
(* language gives the character a meaning ("/", "$", "&").  The empty      *)
(* string is the empty sequence.  Template literals are concatenations.    *)
(* A JavaScript value that may be undefined, a string, a number or a       *)
(* boolean is a record [t |-> typeof, v |-> its text].                     *)
EXTENDS Integers, Sequences, FiniteSets

VARIABLES
    argv,        \* minimist(process.argv.slice(2)): the flags, line 13
    pkg,         \* the name field of ./package.json, or its absence
    cwd,         \* process.cwd()
    homedir,     \* os.homedir()
    boxFile,     \* Homestead.yaml on disk
    hostsFile,   \* /etc/hosts on the host: the lines appended to it
    guestHosts,  \* /etc/hosts in the guest: the lines appended to it
    provisions,  \* number of completed "vagrant reload --provision"
    sslDir,      \* the directory sslPath exists on the host
    staged,      \* certificates copied to /home/vagrant/.homesteadssl
    trusted,     \* certificates imported in the system keychain
    envExample,  \* ./craft/.env.example
    shExample,   \* ./scripts/craft3-example.env.sh
    dotenv,      \* ./craft/.env
    dotenvsh,    \* ./scripts/.env.sh
    keyRuns,     \* number of completed "./craft/craft setup/security-key"
    pc,          \* the statement configureCraftEnv is suspended at
    error,       \* the step whose rejection ended the run, or "none"
    config,      \* the document read at line 115, before the merge
    parsed,      \* the object of line 116, after the merge of 118-155
    console,     \* what the run printed, from line 159 on
    settled,     \* the steps of this run that settled, in order, and how
    hostsErr,    \* the outcome of the direct append of line 163
    applied,     \* the replacements this run handed to replaceInFile
    runs,        \* number of invocations of the tool so far
    data,        \* replaceInFile on its own: the text read at line 81
    replacements,\* replaceInFile on its own: the pairs, in entry order
    replaced,    \* replaceInFile on its own: the text written at line 88
    rpc,         \* which function runs on its own, and how it settled
    merges       \* the merge on its own: number of applications so far

vars == <<argv, pkg, cwd, homedir, boxFile, hostsFile, guestHosts,
          provisions, sslDir, staged, trusted, envExample, shExample,
          dotenv, dotenvsh, keyRuns, pc, error, config, parsed, console,
          settled, hostsErr, applied, runs, data, replacements, replaced,
          rpc, merges>>

envVars == <<argv, pkg, cwd, homedir, envExample, shExample>>
pureVars == <<data, replacements, replaced, rpc, merges>>

-----------------------------------------------------------------------------
(* Bounds of the model.                                                    *)

MaxRuns == 2        \* invocations of the tool against the same machine
MaxPre == 2         \* entries of a collection of Homestead.yaml at start
MaxMerges == 2      \* applications of the merge in SpecMerge
MaxData == 3        \* tokens of the text in SpecReplace
MaxPairs == 2       \* replacement pairs in SpecReplace

-----------------------------------------------------------------------------
(* JavaScript values.                                                      *)

Undefined == [t |-> "undefined", v |-> <<>>]
Str(s) == [t |-> "string", v |-> s]
Num(s) == [t |-> "number", v |-> s]
Bool(s) == [t |-> "boolean", v |-> s]

typeof(x) == x.t

\* ToBoolean, as used by if (x), !x and x || y
Truthy(x) ==
    CASE x.t = "undefined" -> FALSE
      [] x.t = "string" -> x.v # <<>>
      [] x.t = "number" -> x.v # <<"0">>
      [] x.t = "boolean" -> x.v = <<"true">>
      [] x.t = "object" -> TRUE

\* ToString, as used by ${x} in a template literal
ToString(x) == IF x.t = "undefined" THEN <<"undefined">> ELSE x.v

Q == "\""
NL == "\n"

\* 0 when s has no "/", else the position of the last one
LastSlash(s) ==
    IF \E i \in 1..Len(s) : s[i] = "/"
    THEN CHOOSE i \in 1..Len(s) : s[i] = "/" /\ \A j \in (i+1)..Len(s) : s[j] # "/"
    ELSE 0

\* s.split('/').pop()
SplitPop(s) == SubSeq(s, LastSlash(s) + 1, Len(s))

\* path.basename(p) for an absolute path without a trailing slash, or "/"
basename(p) == SplitPop(p)

-----------------------------------------------------------------------------
(* String.prototype.replace(pattern, replacement), both strings.           *)

\* s.indexOf(p) + 1: the start of the first occurrence of p in s, else 0
IndexOf(s, p) ==
    LET hits == {i \in 1..(Len(s) - Len(p) + 1) : SubSeq(s, i, i + Len(p) - 1) = p}
    IN  IF hits = {} THEN 0 ELSE CHOOSE i \in hits : \A j \in hits : i <= j

\* GetSubstitution for a string pattern (no capture groups): $$ is a
\* dollar, $& the match, $` the text before it, $' the text after it;
\* any other dollar stands for itself.
RECURSIVE GetSubstitution(_, _, _, _)
GetSubstitution(r, matched, before, after) ==
    IF r = <<>> THEN <<>>
    ELSE IF Head(r) = "$" /\ Len(r) >= 2 /\ r[2] \in {"$", "&", "`", "'"}
         THEN (CASE r[2] = "$" -> <<"$">>
                 [] r[2] = "&" -> matched
                 [] r[2] = "`" -> before
                 [] r[2] = "'" -> after)
              \o GetSubstitution(SubSeq(r, 3, Len(r)), matched, before, after)
         ELSE <<Head(r)>> \o GetSubstitution(Tail(r), matched, before, after)

StringReplace(s, p, r) ==
    LET i == IndexOf(s, p)
    IN  IF i = 0 THEN s
        ELSE LET before == SubSeq(s, 1, i - 1)
                 after == SubSeq(s, i + Len(p), Len(s))
             IN  before \o GetSubstitution(r, p, before, after) \o after

\* Object.entries(replacements).reduce((string, [pattern, replacement]) =>
\*     string.replace(pattern, replacement), data)
RECURSIVE Reduce(_, _)
Reduce(text, entries) ==
    IF entries = <<>> THEN text
    ELSE Reduce(StringReplace(text, entries[1][1], entries[1][2]), Tail(entries))

\* Object.assign(target, source) on objects held as entry sequences; the
\* keys of the source are new in every use the program makes of it
ObjectAssign(target, source) == target \o source

-----------------------------------------------------------------------------
(* Lines 9-68: the configuration, resolved from the flags, the manifest,   *)
(* the working directory and the home directory.                           *)

\* line 11
directory == basename(cwd)

\* lines 15-28.  pkg is the name field of the manifest; it is Undefined
\* when require() throws or when the manifest has no name.
project ==
    IF typeof(pkg) = "string" /\ Truthy(pkg) THEN SplitPop(pkg.v) ELSE directory

\* line 40
securityKey == argv.security_key

\* line 41
localDomain ==
    IF typeof(argv.domain) = "string" THEN argv.domain.v ELSE project \o <<".local">>

\* line 42
homesteadPath ==
    IF typeof(argv.homestead_path) = "string" THEN argv.homestead_path.v
    ELSE homedir \o <<"/", "homestead", "/", "Homestead">>

\* line 43
sslPath ==
    IF typeof(argv.ssl_path) = "string" THEN argv.ssl_path.v
    ELSE homedir \o <<"/", ".homesteadssl">>

\* line 45
databasePrefix ==
    IF typeof(argv.db_prefix) = "string" THEN argv.db_prefix ELSE Undefined

NoRemote ==
    [t |-> "undefined", user |-> <<>>, password |-> <<>>, host |-> <<>>,
     name |-> <<>>, port |-> <<>>, schema |-> <<>>]

\* lines 47-68 without the test of lines 56-58
remoteDatabaseNoHostCheck ==
    IF typeof(argv.remote_db_user) # "string" THEN NoRemote
    ELSE IF typeof(argv.remote_db_password) # "string" THEN NoRemote
    ELSE [t |-> "object",
          user |-> argv.remote_db_user.v,
          password |-> argv.remote_db_password.v,
          host |-> argv.remote_db_host.v,
          name |-> IF typeof(argv.remote_db_name) = "string"
                   THEN argv.remote_db_name.v ELSE project,
          port |-> IF typeof(argv.remote_db_port) = "number"
                   THEN argv.remote_db_port.v ELSE <<"3306">>,
          schema |-> IF typeof(argv.remote_db_schema) = "string"
                     THEN argv.remote_db_schema.v ELSE <<"public">>]

\* lines 47-68
remoteDatabase ==
    IF typeof(argv.remote_db_user) # "string" THEN NoRemote
    ELSE IF typeof(argv.remote_db_password) # "string" THEN NoRemote
    ELSE IF typeof(argv.remote_db_host) # "string" THEN NoRemote
    ELSE [t |-> "object",
          user |-> argv.remote_db_user.v,
          password |-> argv.remote_db_password.v,
          host |-> argv.remote_db_host.v,
          name |-> IF typeof(argv.remote_db_name) = "string"
                   THEN argv.remote_db_name.v ELSE project,
          port |-> IF typeof(argv.remote_db_port) = "number"
                   THEN argv.remote_db_port.v ELSE <<"3306">>,
          schema |-> IF typeof(argv.remote_db_schema) = "string"
                     THEN argv.remote_db_schema.v ELSE <<"public">>]

-----------------------------------------------------------------------------
(* Lines 116-157: Homestead.yaml.  A document is a record of its ip, the   *)
(* set of the collection keys it has, and the three collections (empty     *)
(* for a key it does not have).                                            *)

Collections == {"folders", "sites", "databases"}

\* yaml.safeLoad: the object has the keys of the document; reading a key
\* the document does not have gives undefined.
safeLoad(doc) == doc

\* yaml.safeDump: every own property of the object is written, an empty
\* array as "[]".
safeDump(obj) == obj

\* arr.find(test) as the position of the first element passing the test,
\* 0 when there is none (find then returns undefined); passes[i] is the
\* result of the test on arr[i]
FindIndex(passes) ==
    IF \E i \in 1..Len(passes) : passes[i]
    THEN CHOOSE i \in 1..Len(passes) : passes[i] /\ \A j \in 1..(i-1) : ~passes[j]
    ELSE 0

\* !arr.find(test) on an array of objects: an object is truthy
NotFoundObject(arr, passes) == FindIndex(passes) = 0

\* !arr.find(test) on an array of strings: find returns the string itself
NotFoundString(arr, passes) ==
    LET i == FindIndex(passes)
    IN  IF i = 0 THEN TRUE ELSE ~Truthy(Str(arr[i]))

\* lines 118-128
MergeCwdFolder(obj) ==
    LET folders == IF "folders" \in obj.keys THEN obj.folders ELSE <<>>
        IsCwd == [i \in 1..Len(folders) |-> folders[i].map = cwd]
    IN  [obj EXCEPT !.keys = @ \cup {"folders"},
                    !.folders =
                        IF NotFoundObject(folders, IsCwd)
                        THEN Append(folders,
                                    [map |-> cwd,
                                     to |-> <<"/home/vagrant/homestead/">> \o project,
                                     type |-> <<"nfs">>])
                        ELSE folders]

\* lines 130-136
MergeSslFolder(obj) ==
    LET IsSsl == [i \in 1..Len(obj.folders) |-> obj.folders[i].map = sslPath]
    IN  [obj EXCEPT !.folders =
                        IF NotFoundObject(obj.folders, IsSsl)
                        THEN Append(@, [map |-> sslPath,
                                        to |-> <<"/home/vagrant/.homesteadssl">>,
                                        type |-> <<"nfs">>])
                        ELSE @]

\* lines 138-147 with unshift in place of push
MergeSiteUnshift(obj) ==
    LET sites == IF "sites" \in obj.keys THEN obj.sites ELSE <<>>
        IsDomain == [i \in 1..Len(sites) |-> sites[i].map = localDomain]
    IN  [obj EXCEPT !.keys = @ \cup {"sites"},
                    !.sites =
                        IF NotFoundObject(sites, IsDomain)
                        THEN <<[map |-> localDomain,
                                to |-> <<"/home/vagrant/homestead/">> \o project
                                       \o <<"/www">>]>> \o sites
                        ELSE sites]

\* lines 138-147
MergeSite(obj) ==
    LET sites == IF "sites" \in obj.keys THEN obj.sites ELSE <<>>
        IsDomain == [i \in 1..Len(sites) |-> sites[i].map = localDomain]
    IN  [obj EXCEPT !.keys = @ \cup {"sites"},
                    !.sites =
                        IF NotFoundObject(sites, IsDomain)
                        THEN Append(sites,
                                    [map |-> localDomain,
                                     to |-> <<"/home/vagrant/homestead/">> \o project
                                            \o <<"/www">>])
                        ELSE sites]

\* lines 149-155
MergeDatabase(obj) ==
    LET databases == IF "databases" \in obj.keys THEN obj.databases ELSE <<>>
        IsProject == [i \in 1..Len(databases) |-> databases[i] = project]
    IN  [obj EXCEPT !.keys = @ \cup {"databases"},
                    !.databases =
                        IF NotFoundString(databases, IsProject)
                        THEN Append(databases, project)
                        ELSE databases]

\* lines 118-155
Merge(obj) == MergeDatabase(MergeSite(MergeSslFolder(MergeCwdFolder(obj))))

-----------------------------------------------------------------------------
(* Lines 80-96 and 181-231: the environment files.  A file is a record of  *)
(* whether it exists and of its text.                                      *)

NoFile == [exists |-> FALSE, text |-> <<>>]
File(text) == [exists |-> TRUE, text |-> text]

\* the text KEY="value"
KV(key, value) == <<key \o "=", Q>> \o value \o <<Q>>

\* databasePrefix || ''
PrefixOrEmpty == IF Truthy(databasePrefix) THEN databasePrefix.v ELSE <<>>

\* lines 185-192: the object literal handed to replaceInFile, as entries
DotenvReplacements(ip) ==
    << <<KV("SECURITY_KEY", <<>>), KV("SECURITY_KEY", ToString(securityKey))>>,
       <<KV("DB_SERVER", <<"localhost">>), KV("DB_SERVER", ip)>>,
       <<KV("DB_USER", <<"root">>), KV("DB_USER", <<"homestead">>)>>,
       <<KV("DB_PASSWORD", <<>>), KV("DB_PASSWORD", <<"secret">>)>>,
       <<KV("DB_DATABASE", <<>>), KV("DB_DATABASE", project)>>,
       <<KV("DB_TABLE_PREFIX", <<>>), KV("DB_PREFIX", PrefixOrEmpty)>> >>

\* lines 203-212
BaseShReplacements(ip) ==
    << <<KV("GLOBAL_CRAFT_PATH", <<"./">>), KV("GLOBAL_CRAFT_PATH", <<"./craft/">>)>>,
       <<KV("LOCAL_ROOT_PATH", <<"REPLACE_ME">>), KV("LOCAL_ROOT_PATH", cwd \o <<"/">>)>>,
       <<<<"LOCAL_ASSETS_PATH=", "$", "{LOCAL_ROOT_PATH}", Q, "REPLACE_ME", Q>>,
         <<"LOCAL_ASSETS_PATH=", "$", "{LOCAL_ROOT_PATH}", Q, "files/", Q>>>>,
       <<KV("LOCAL_DB_NAME", <<"REPLACE_ME">>), KV("LOCAL_DB_NAME", project)>>,
       <<KV("LOCAL_DB_PASSWORD", <<"REPLACE_ME">>), KV("LOCAL_DB_PASSWORD", <<"secret">>)>>,
       <<KV("LOCAL_DB_USER", <<"REPLACE_ME">>), KV("LOCAL_DB_USER", <<"homestead">>)>>,
       <<KV("LOCAL_DB_HOST", <<"localhost">>), KV("LOCAL_DB_HOST", ip)>> >>

\* lines 215-222
RemoteShReplacements ==
    << <<KV("REMOTE_DB_NAME", <<"REPLACE_ME">>), KV("REMOTE_DB_NAME", remoteDatabase.name)>>,
       <<KV("REMOTE_DB_PASSWORD", <<"REPLACE_ME">>),
         KV("REMOTE_DB_PASSWORD", remoteDatabase.password)>>,
       <<KV("REMOTE_DB_USER", <<"REPLACE_ME">>), KV("REMOTE_DB_USER", remoteDatabase.user)>>,
       <<KV("REMOTE_DB_HOST", <<"localhost">>), KV("REMOTE_DB_HOST", remoteDatabase.host)>>,
       <<KV("REMOTE_DB_PORT", <<"3306">>), KV("REMOTE_DB_PORT", remoteDatabase.port)>>,
       <<KV("REMOTE_DB_SCHEMA", <<"public">>), KV("REMOTE_DB_SCHEMA", remoteDatabase.schema)>> >>

\* lines 226-228
PrefixShReplacements ==
    << <<KV("GLOBAL_DB_TABLE_PREFIX", <<>>),
         KV("GLOBAL_DB_TABLE_PREFIX", databasePrefix.v \o <<"_">>)>> >>

\* lines 203-229
DotenvshReplacements(ip) ==
    LET base == BaseShReplacements(ip)
        withRemote == IF Truthy(remoteDatabase)
                      THEN ObjectAssign(base, RemoteShReplacements) ELSE base
    IN  IF Truthy(databasePrefix)
        THEN ObjectAssign(withRemote, PrefixShReplacements) ELSE withRemote

\* lines 80-96: the file after replaceInFile settled with the outcome
replaceInFile(file, entries, outcome) ==
    IF outcome = "ok" /\ file.exists THEN File(Reduce(file.text, entries)) ELSE file

\* fs.copy(src, dest): the destination after the copy settled
copy(src, dest, outcome) ==
    IF outcome = "ok" /\ src.exists THEN src ELSE dest

-----------------------------------------------------------------------------
(* Lines 98-251: configureCraftEnv, one action for each awaited operation. *)
(* An operation of the file system or of a child process settles with an   *)
(* outcome the program does not control.                                   *)

machineVars == <<boxFile, hostsFile, guestHosts, provisions, sslDir, staged,
                 trusted, dotenv, dotenvsh, keyRuns>>

Steps == <<"readFile", "outputFile", "appendFile", "sudoTee", "reload",
           "guestHosts", "ensureDir", "copyCert", "addTrustedCert",
           "copyEnv", "replaceEnv", "copySh", "replaceSh", "securityKey">>

NoEnvMessage == "Could not create ./craft/.env"
NoShMessage == "Could not create ./scripts/.env.sh"
ReadyMessage == "Get ready to rumble!"

\* the position of a step in Steps
Pos(step) == CHOOSE i \in 1..Len(Steps) : Steps[i] = step

\* a rejection that is swallowed: the function goes on at the next statement
ThrowSwallowed ==
    /\ pc' = IF Pos(pc) = Len(Steps) THEN "done" ELSE Steps[Pos(pc) + 1]
    /\ error' = error
    /\ settled' = Append(settled, [step |-> pc, ok |-> FALSE])

\* an awaited promise rejects outside a try block: the async function
\* rejects and none of its remaining statements run
Throw ==
    /\ pc' = "aborted"
    /\ error' = pc
    /\ settled' = Append(settled, [step |-> pc, ok |-> FALSE])

\* the awaited promise resolves and the function goes on at the step
Goto(step) ==
    /\ pc' = step
    /\ error' = error
    /\ settled' = Append(settled, [step |-> pc, ok |-> TRUE])

\* lines 164-165: the rejection of the direct append enters the catch block
Fallback(step) ==
    /\ pc' = step
    /\ error' = error
    /\ settled' = Append(settled, [step |-> pc, ok |-> FALSE])

\* lines 115-155
ReadConfig ==
    /\ pc = "readFile"
    /\ \E outcome \in {"ok", "unreadable", "malformed"} :
          IF outcome = "ok"
          THEN /\ config' = safeLoad(boxFile)
               /\ parsed' = Merge(safeLoad(boxFile))
               /\ Goto("outputFile")
          ELSE /\ Throw
               /\ UNCHANGED <<config, parsed>>
    /\ UNCHANGED <<envVars, machineVars, console, hostsErr, applied, runs, pureVars>>

\* line 157
WriteConfig ==
    /\ pc = "outputFile"
    /\ \E outcome \in {"ok", "fail"} :
          IF outcome = "ok"
          THEN /\ boxFile' = safeDump(parsed)
               /\ Goto("appendFile")
          ELSE /\ Throw
               /\ UNCHANGED boxFile
    /\ UNCHANGED <<envVars, hostsFile, guestHosts, provisions, sslDir, staged,
                   trusted, dotenv, dotenvsh, keyRuns, config, parsed, console,
                   hostsErr, applied, runs, pureVars>>

\* lines 162-164: the direct append; the catch block takes any rejection
AppendHosts ==
    /\ pc = "appendFile"
    /\ \E outcome \in {"ok", "EACCES", "EROFS"} :
          /\ hostsErr' = outcome
          /\ IF outcome = "ok"
             THEN /\ hostsFile' = Append(hostsFile,
                                         parsed.ip \o <<" ">> \o localDomain \o <<"\r\n">>)
                  /\ Goto("reload")
             ELSE /\ Fallback("sudoTee")
                  /\ UNCHANGED hostsFile
    /\ UNCHANGED <<envVars, boxFile, guestHosts, provisions, sslDir, staged,
                   trusted, dotenv, dotenvsh, keyRuns, config, parsed, console,
                   applied, runs, pureVars>>

\* line 165: echo "..." | sudo tee -a /etc/hosts
SudoTee ==
    /\ pc = "sudoTee"
    /\ \E outcome \in {"ok", "fail"} :
          IF outcome = "ok"
          THEN /\ hostsFile' = Append(hostsFile,
                                      parsed.ip \o <<" ">> \o localDomain \o <<NL>>)
               /\ Goto("reload")
          ELSE /\ Throw
               /\ UNCHANGED hostsFile
    /\ UNCHANGED <<envVars, boxFile, guestHosts, provisions, sslDir, staged,
                   trusted, dotenv, dotenvsh, keyRuns, config, parsed, console,
                   hostsErr, applied, runs, pureVars>>

\* line 170: vagrant reload --provision
Reload ==
    /\ pc = "reload"
    /\ \E outcome \in {"ok", "fail"} :
          IF outcome = "ok"
          THEN /\ provisions' = provisions + 1
               /\ Goto("guestHosts")
          ELSE /\ Throw
               /\ UNCHANGED provisions
    /\ UNCHANGED <<envVars, boxFile, hostsFile, guestHosts, sslDir, staged,
                   trusted, dotenv, dotenvsh, keyRuns, config, parsed, console,
                   hostsErr, applied, runs, pureVars>>

\* line 171: the loopback alias in the guest
GuestHosts ==
    /\ pc = "guestHosts"
    /\ \E outcome \in {"ok", "fail"} :
          IF outcome = "ok"
          THEN /\ guestHosts' = Append(guestHosts, <<"127.0.0.1 ">> \o localDomain)
               /\ Goto("ensureDir")
          ELSE /\ Throw
               /\ UNCHANGED guestHosts
    /\ UNCHANGED <<envVars, boxFile, hostsFile, provisions, sslDir, staged,
                   trusted, dotenv, dotenvsh, keyRuns, config, parsed, console,
                   hostsErr, applied, runs, pureVars>>

\* line 175
EnsureDir ==
    /\ pc = "ensureDir"
    /\ \E outcome \in {"ok", "fail"} :
          IF outcome = "ok"
          THEN /\ sslDir' = TRUE
               /\ Goto("copyCert")
          ELSE /\ Throw
               /\ UNCHANGED sslDir
    /\ UNCHANGED <<envVars, boxFile, hostsFile, guestHosts, provisions, staged,
                   trusted, dotenv, dotenvsh, keyRuns, config, parsed, console,
                   hostsErr, applied, runs, pureVars>>

\* line 176
CopyCert ==
    /\ pc = "copyCert"
    /\ \E outcome \in {"ok", "fail"} :
          IF outcome = "ok"
          THEN /\ staged' = staged \cup {localDomain \o <<".crt">>}
               /\ Goto("addTrustedCert")
          ELSE /\ Throw
               /\ UNCHANGED staged
    /\ UNCHANGED <<envVars, boxFile, hostsFile, guestHosts, provisions, sslDir,
                   trusted, dotenv, dotenvsh, keyRuns, config, parsed, console,
                   hostsErr, applied, runs, pureVars>>

\* line 177
AddTrustedCert ==
    /\ pc = "addTrustedCert"
    /\ \E outcome \in {"ok", "fail"} :
          IF outcome = "ok"
          THEN /\ trusted' = trusted \cup {sslPath \o <<"/">> \o localDomain \o <<".crt">>}
               /\ Goto("copyEnv")
          ELSE /\ Throw
               /\ UNCHANGED trusted
    /\ UNCHANGED <<envVars, boxFile, hostsFile, guestHosts, provisions, sslDir,
                   staged, dotenv, dotenvsh, keyRuns, config, parsed, console,
                   hostsErr, applied, runs, pureVars>>

\* a catch block that prints the message and throws the error again
CaughtRethrown(message, next) ==
    /\ console' = Append(console, message)
    /\ pc' = "aborted"
    /\ error' = pc
    /\ settled' = Append(settled, [step |-> pc, ok |-> FALSE])

\* a rejection inside the try block of lines 183-196 or 200-235: the
\* catch block prints the message and the function goes on after it
Caught(message, next) ==
    /\ console' = Append(console, message)
    /\ pc' = next
    /\ error' = error
    /\ settled' = Append(settled, [step |-> pc, ok |-> FALSE])

\* line 184
CopyEnv ==
    /\ pc = "copyEnv"
    /\ \E outcome \in {"ok", "fail"} :
          /\ dotenv' = copy(envExample, dotenv, outcome)
          /\ IF outcome = "ok" /\ envExample.exists
             THEN /\ Goto("replaceEnv")
                  /\ UNCHANGED console
             ELSE Caught(NoEnvMessage, "copySh")
    /\ UNCHANGED <<envVars, boxFile, hostsFile, guestHosts, provisions, sslDir,
                   staged, trusted, dotenvsh, keyRuns, config, parsed,
                   hostsErr, applied, runs, pureVars>>

\* lines 185-192
ReplaceEnv ==
    /\ pc = "replaceEnv"
    /\ applied' = [applied EXCEPT !.dotenv = DotenvReplacements(parsed.ip)]
    /\ \E outcome \in {"ok", "readErr", "writeErr"} :
          /\ dotenv' = replaceInFile(dotenv, DotenvReplacements(parsed.ip), outcome)
          /\ IF outcome = "ok"
             THEN /\ Goto("copySh")
                  /\ UNCHANGED console
             ELSE Caught(NoEnvMessage, "copySh")
    /\ UNCHANGED <<envVars, boxFile, hostsFile, guestHosts, provisions, sslDir,
                   staged, trusted, dotenvsh, keyRuns, config, parsed,
                   hostsErr, runs, pureVars>>

\* line 201
CopySh ==
    /\ pc = "copySh"
    /\ \E outcome \in {"ok", "fail"} :
          /\ dotenvsh' = copy(shExample, dotenvsh, outcome)
          /\ IF outcome = "ok" /\ shExample.exists
             THEN /\ Goto("replaceSh")
                  /\ UNCHANGED console
             ELSE Caught(NoShMessage, "securityKey")
    /\ UNCHANGED <<envVars, boxFile, hostsFile, guestHosts, provisions, sslDir,
                   staged, trusted, dotenv, keyRuns, config, parsed,
                   hostsErr, applied, runs, pureVars>>

\* lines 203-231
ReplaceSh ==
    /\ pc = "replaceSh"
    /\ applied' = [applied EXCEPT !.dotenvsh = DotenvshReplacements(parsed.ip)]
    /\ \E outcome \in {"ok", "readErr", "writeErr"} :
          /\ dotenvsh' = replaceInFile(dotenvsh, DotenvshReplacements(parsed.ip), outcome)
          /\ IF outcome = "ok"
             THEN /\ Goto("securityKey")
                  /\ UNCHANGED console
             ELSE Caught(NoShMessage, "securityKey")
    /\ UNCHANGED <<envVars, boxFile, hostsFile, guestHosts, provisions, sslDir,
                   staged, trusted, dotenv, keyRuns, config, parsed,
                   hostsErr, runs, pureVars>>

\* lines 237-250
SecurityKey ==
    /\ pc = "securityKey"
    /\ IF ~Truthy(securityKey)
       THEN \E outcome \in {"ok", "fail"} :
               IF outcome = "ok"
               THEN /\ keyRuns' = keyRuns + 1
                    /\ console' = Append(console, ReadyMessage)
                    /\ Goto("done")
               ELSE /\ Throw
                    /\ UNCHANGED <<keyRuns, console>>
       ELSE /\ console' = Append(console, ReadyMessage)
            /\ Goto("done")
            /\ UNCHANGED keyRuns
    /\ UNCHANGED <<envVars, boxFile, hostsFile, guestHosts, provisions, sslDir,
                   staged, trusted, dotenv, dotenvsh, config, parsed,
                   hostsErr, applied, runs, pureVars>>

EmptyDoc == [ip |-> <<>>, keys |-> {}, folders |-> <<>>, sites |-> <<>>, databases |-> <<>>]
NothingApplied == [dotenv |-> <<>>, dotenvsh |-> <<>>]

\* the state of a process of the tool at line 98
Fresh ==
    /\ pc = "readFile"
    /\ error = "none"
    /\ config = EmptyDoc
    /\ parsed = EmptyDoc
    /\ console = <<>>
    /\ settled = <<>>
    /\ hostsErr = "none"
    /\ applied = NothingApplied

\* the operator invokes the tool again, with the same flags, in the same
\* directory, on the same machine
Rerun ==
    /\ pc \in {"done", "aborted"}
    /\ runs < MaxRuns
    /\ runs' = runs + 1
    /\ pc' = "readFile"
    /\ error' = "none"
    /\ config' = EmptyDoc
    /\ parsed' = EmptyDoc
    /\ console' = <<>>
    /\ settled' = <<>>
    /\ hostsErr' = "none"
    /\ applied' = NothingApplied
    /\ UNCHANGED <<envVars, machineVars, pureVars>>

-----------------------------------------------------------------------------
(* The inputs of the model.                                                *)

NoFlags ==
    [security_key |-> Undefined, domain |-> Undefined,
     homestead_path |-> Undefined, ssl_path |-> Undefined,
     db_prefix |-> Undefined, remote_db_user |-> Undefined,
     remote_db_password |-> Undefined, remote_db_host |-> Undefined,
     remote_db_name |-> Undefined, remote_db_port |-> Undefined,
     remote_db_schema |-> Undefined]

\* a craft/.env.example with every line the program rewrites
StandardEnv ==
    KV("SECURITY_KEY", <<>>) \o <<NL>> \o KV("DB_SERVER", <<"localhost">>) \o <<NL>>
    \o KV("DB_USER", <<"root">>) \o <<NL>> \o KV("DB_PASSWORD", <<>>) \o <<NL>>
    \o KV("DB_DATABASE", <<>>) \o <<NL>> \o KV("DB_TABLE_PREFIX", <<>>) \o <<NL>>

\* a scripts/craft3-example.env.sh with every line the program rewrites
StandardSh ==
    KV("GLOBAL_CRAFT_PATH", <<"./">>) \o <<NL>>
    \o KV("GLOBAL_DB_TABLE_PREFIX", <<>>) \o <<NL>>
    \o KV("LOCAL_ROOT_PATH", <<"REPLACE_ME">>) \o <<NL>>
    \o <<"LOCAL_ASSETS_PATH=", "$", "{LOCAL_ROOT_PATH}", Q, "REPLACE_ME", Q, NL>>
    \o KV("LOCAL_DB_NAME", <<"REPLACE_ME">>) \o <<NL>>
    \o KV("LOCAL_DB_PASSWORD", <<"REPLACE_ME">>) \o <<NL>>
    \o KV("LOCAL_DB_USER", <<"REPLACE_ME">>) \o <<NL>>
    \o KV("LOCAL_DB_HOST", <<"localhost">>) \o <<NL>>
    \o KV("REMOTE_DB_NAME", <<"REPLACE_ME">>) \o <<NL>>
    \o KV("REMOTE_DB_PASSWORD", <<"REPLACE_ME">>) \o <<NL>>
    \o KV("REMOTE_DB_USER", <<"REPLACE_ME">>) \o <<NL>>
    \o KV("REMOTE_DB_HOST", <<"localhost">>) \o <<NL>>
    \o KV("REMOTE_DB_PORT", <<"3306">>) \o <<NL>>
    \o KV("REMOTE_DB_SCHEMA", <<"public">>) \o <<NL>>

BoxIp == <<"192.168.10.10">>

\* no function runs on its own
AloneIdle ==
    /\ data = <<>>
    /\ replacements = <<>>
    /\ replaced = <<>>
    /\ rpc = "idle"
    /\ merges = 0

\* a machine the tool never ran on
NewMachine ==
    /\ hostsFile = <<>>
    /\ guestHosts = <<>>
    /\ provisions = 0
    /\ sslDir = FALSE
    /\ staged = {}
    /\ trusted = {}
    /\ dotenv = NoFile
    /\ dotenvsh = NoFile
    /\ keyRuns = 0

\* the values a flag given on the command line can have, by type
GivenString == Str(<<"given">>)
GivenNumber == Num(<<"7">>)

\* the three required remote flags: each given as a string or left out,
\* or two given as strings and the third as a number
RequiredRemoteFlags ==
    {f \in [{"user", "password", "host"} -> {Undefined, GivenString, GivenNumber}] :
        Cardinality({k \in DOMAIN f : f[k] = GivenNumber}) = 0
        \/ \A k \in DOMAIN f : f[k] # Undefined}

\* the command lines of Spec: with and without a security key
RunFlags ==
    {[NoFlags EXCEPT !.security_key = key] : key \in {Undefined, Str(<<"xyz">>)}}

\* the command lines of SpecFlags: the prefix flag on its own, and the
\* remote flags on their own
TemplateFlags ==
    {[NoFlags EXCEPT !.db_prefix = prefix] :
        prefix \in {Undefined, Str(<<>>), Str(<<"pre">>)}}
    \cup
    {[NoFlags EXCEPT !.remote_db_user = req["user"],
                     !.remote_db_password = req["password"],
                     !.remote_db_host = req["host"],
                     !.remote_db_name = IF opt THEN Str(<<"remote">>) ELSE Undefined,
                     !.remote_db_port = IF opt THEN Num(<<"3307">>) ELSE Undefined,
                     !.remote_db_schema = IF opt THEN Str(<<"craft">>) ELSE Undefined] :
        req \in RequiredRemoteFlags,
        opt \in BOOLEAN}

\* the first invocation of the tool on a new machine
FirstRun ==
    /\ cwd = <<"/", "w", "/", "site">>
    /\ homedir = <<"/", "home", "/", "u">>
    /\ NewMachine
    /\ runs = 1
    /\ Fresh
    /\ AloneIdle

Init ==
    /\ argv \in RunFlags
    /\ pkg \in {Str(<<"@scope", "/", "app">>), Str(<<"@scope", "/">>)}
    /\ boxFile = [EmptyDoc EXCEPT !.ip = BoxIp]
    /\ envExample \in {NoFile, File(StandardEnv)}
    /\ shExample \in {NoFile, File(StandardSh)}
    /\ FirstRun

InitFlags ==
    /\ argv \in TemplateFlags
    /\ pkg = Str(<<"@scope", "/", "app">>)
    /\ boxFile = [EmptyDoc EXCEPT !.ip = BoxIp]
    /\ envExample = File(StandardEnv)
    /\ shExample = File(StandardSh)
    /\ FirstRun

Next ==
    \/ ReadConfig
    \/ WriteConfig
    \/ AppendHosts
    \/ SudoTee
    \/ Reload
    \/ GuestHosts
    \/ EnsureDir
    \/ CopyCert
    \/ AddTrustedCert
    \/ CopyEnv
    \/ ReplaceEnv
    \/ CopySh
    \/ ReplaceSh
    \/ SecurityKey
    \/ Rerun

Spec == Init /\ [][Next]_vars

SpecFlags == InitFlags /\ [][Next]_vars

-----------------------------------------------------------------------------
(* Lines 116-157 on their own: the document is loaded, merged and dumped,  *)
(* again and again, for every configuration and document of the bounds.    *)

SeqsUpTo(S, n) == UNION {[1..k -> S] : k \in 0..n}

SitePath == <<"/", "w", "/", "site">>
HomePath == <<"/", "home", "/", "u">>

\* entries a document can hold before the tool ever ran
FolderPool ==
    {[map |-> m, to |-> <<"/old">>, type |-> <<"nfs">>] :
        m \in {SitePath, HomePath \o <<"/", ".homesteadssl">>}}
SitePool == {[map |-> m, to |-> <<"/old/www">>] : m \in {<<>>, <<"app.local">>}}
DatabasePool == {<<>>, <<"app">>}

Documents ==
    {[ip |-> BoxIp, keys |-> k,
      folders |-> IF "folders" \in k THEN f ELSE <<>>,
      sites |-> IF "sites" \in k THEN s ELSE <<>>,
      databases |-> IF "databases" \in k THEN d ELSE <<>>] :
        k \in SUBSET Collections,
        f \in SeqsUpTo(FolderPool, MaxPre),
        s \in SeqsUpTo(SitePool, MaxPre),
        d \in SeqsUpTo(DatabasePool, MaxPre)}

MergeFlags ==
    {[NoFlags EXCEPT !.domain = domain, !.ssl_path = ssl] :
        domain \in {Undefined, Str(<<>>), Str(<<"app.local">>)},
        ssl \in {Undefined, Str(SitePath)}}

InitMerge ==
    /\ argv \in MergeFlags
    /\ pkg \in {Undefined, Str(<<"@scope", "/", "app">>), Str(<<"@scope", "/">>)}
    /\ cwd \in {SitePath, <<"/">>}
    /\ homedir = HomePath
    /\ boxFile \in Documents
    /\ envExample = NoFile
    /\ shExample = NoFile
    /\ NewMachine
    /\ runs = 1
    /\ Fresh
    /\ data = <<>>
    /\ replacements = <<>>
    /\ replaced = <<>>
    /\ rpc = "merge"
    /\ merges = 0

\* lines 116-157, the read and the write succeeding
MergeAlone ==
    /\ rpc = "merge"
    /\ merges < MaxMerges
    /\ merges' = merges + 1
    /\ config' = safeLoad(boxFile)
    /\ parsed' = Merge(safeLoad(boxFile))
    /\ boxFile' = safeDump(Merge(safeLoad(boxFile)))
    /\ UNCHANGED <<envVars, hostsFile, guestHosts, provisions, sslDir, staged,
                   trusted, dotenv, dotenvsh, keyRuns, pc, error, console,
                   settled, hostsErr, applied, runs, data, replacements,
                   replaced, rpc>>

NextMerge == MergeAlone

SpecMerge == InitMerge /\ [][NextMerge]_vars

-----------------------------------------------------------------------------
(* Lines 80-96 on their own: replaceInFile on every text and every         *)
(* replacements object of the bounds.                                      *)

Alphabet == {"a", "b", "$", "&"}
Patterns == {<<"a">>, <<"b">>, <<"a", "b">>}
Substitutes == {<<"b">>, <<"a", "a">>, <<"$", "&">>, <<"$", "$">>}

\* the entries of an object: no two with the same key
EntryLists ==
    {e \in SeqsUpTo(Patterns \X Substitutes, MaxPairs) :
        \A i, j \in 1..Len(e) : i # j => e[i][1] # e[j][1]}

InitReplace ==
    /\ argv = NoFlags
    /\ pkg = Undefined
    /\ cwd = SitePath
    /\ homedir = HomePath
    /\ boxFile = [EmptyDoc EXCEPT !.ip = BoxIp]
    /\ envExample = NoFile
    /\ shExample = NoFile
    /\ hostsFile = <<>>
    /\ guestHosts = <<>>
    /\ provisions = 0
    /\ sslDir = FALSE
    /\ staged = {}
    /\ trusted = {}
    /\ dotenv \in {File(text) : text \in SeqsUpTo(Alphabet, MaxData)}
    /\ dotenvsh = NoFile
    /\ keyRuns = 0
    /\ runs = 1
    /\ Fresh
    /\ data = <<>>
    /\ replacements \in EntryLists
    /\ replaced = <<>>
    /\ rpc = "replaceInFile"
    /\ merges = 0

\* lines 80-96, called on ./craft/.env
ReplaceAlone ==
    /\ rpc = "replaceInFile"
    /\ \E outcome \in {"ok", "readErr", "writeErr"} :
          /\ data' = IF outcome = "readErr" THEN <<>> ELSE dotenv.text
          /\ replaced' = IF outcome = "readErr" THEN <<>>
                         ELSE Reduce(dotenv.text, replacements)
          /\ dotenv' = replaceInFile(dotenv, replacements, outcome)
          /\ rpc' = IF outcome = "ok" THEN "resolved" ELSE "rejected"
    /\ UNCHANGED <<envVars, boxFile, hostsFile, guestHosts, provisions, sslDir,
                   staged, trusted, dotenvsh, keyRuns, pc, error, config, parsed,
                   console, settled, hostsErr, applied, runs, replacements, merges>>

NextReplace == ReplaceAlone

SpecReplace == InitReplace /\ [][NextReplace]_vars

-----------------------------------------------------------------------------
(* The merge: properties checked under SpecMerge.  After an application,   *)
(* config is the document before it and parsed the document after it.      *)

IsPrefix(s, t) == Len(s) <= Len(t) /\ SubSeq(t, 1, Len(s)) = s

NoDuplicate(keys) == \A i, j \in 1..Len(keys) : i # j => keys[i] # keys[j]

Maps(entries) == [i \in 1..Len(entries) |-> entries[i].map]

NoDuplicateKeys(doc) ==
    /\ NoDuplicate(Maps(doc.folders))
    /\ NoDuplicate(Maps(doc.sites))
    /\ NoDuplicate(doc.databases)

\* C1: applying the merge twice with the same configuration gives the same
\* folders, sites and databases as applying it once.
C1_MergeIdempotent ==
    merges >= 2 =>
        /\ parsed.folders = config.folders
        /\ parsed.sites = config.sites
        /\ parsed.databases = config.databases

\* C2: if no collection of the document had two entries with the same key
\* before the merge, none has after it.
C2_NoDuplicateKeys ==
    (merges >= 1 /\ NoDuplicateKeys(config)) => NoDuplicateKeys(parsed)

\* C3: the merge keeps every entry it found, at its position, and follows
\* them by at most two folders, one site and one database of its own.
C3_AppendOnly ==
    merges >= 1 =>
        /\ IsPrefix(config.folders, parsed.folders)
        /\ IsPrefix(config.sites, parsed.sites)
        /\ IsPrefix(config.databases, parsed.databases)
        /\ Len(parsed.folders) <= Len(config.folders) + 2
        /\ Len(parsed.sites) <= Len(config.sites) + 1
        /\ Len(parsed.databases) <= Len(config.databases) + 1
        /\ \A i \in (Len(config.folders) + 1)..Len(parsed.folders) :
              parsed.folders[i].map \in {cwd, sslPath}
        /\ \A i \in (Len(config.sites) + 1)..Len(parsed.sites) :
              parsed.sites[i].map = localDomain
        /\ \A i \in (Len(config.databases) + 1)..Len(parsed.databases) :
              parsed.databases[i] = project

\* C3's case: a document with entries of its own in every collection, to
\* which the merge added a folder, a site and a database
C3_Witness ==
    /\ merges = 1
    /\ Len(config.folders) = 2 /\ Len(parsed.folders) = 3
    /\ Len(config.sites) = 2 /\ Len(parsed.sites) = 3
    /\ Len(config.databases) = 1 /\ Len(parsed.databases) = 2

-----------------------------------------------------------------------------
(* replaceInFile: properties checked under SpecReplace.                    *)

\* the first occurrence of p in s replaced by r as it stands
LiteralReplace(s, p, r) ==
    LET i == IndexOf(s, p)
    IN  IF i = 0 THEN s
        ELSE SubSeq(s, 1, i - 1) \o r \o SubSeq(s, i + Len(p), Len(s))

RECURSIVE LiteralReduce(_, _)
LiteralReduce(text, entries) ==
    IF entries = <<>> THEN text
    ELSE LiteralReduce(LiteralReplace(text, entries[1][1], entries[1][2]), Tail(entries))

\* C7: replaceInFile writes the text it read with the pairs applied in
\* order, each to the first occurrence of its pattern, the replacement
\* taken literally, and the rest of the text as it was.
C7_LiteralFirstOccurrence ==
    rpc = "resolved" => dotenv.text = LiteralReduce(data, replacements)

-----------------------------------------------------------------------------
(* The run: properties checked under Spec and SpecFlags.                   *)

\* the step settled in this run, with success
Done(step) == \E i \in 1..Len(settled) : settled[i].step = step /\ settled[i].ok

\* the step settled in this run, with a rejection
Failed(step) == \E i \in 1..Len(settled) : settled[i].step = step /\ ~settled[i].ok

Attempted(step) == \E i \in 1..Len(settled) : settled[i].step = step

InConsole(message) == \E i \in 1..Len(console) : console[i] = message

\* the steps of 4.4 that every run takes, in order
Mandatory == {"readFile", "outputFile", "appendFile", "reload", "guestHosts",
              "ensureDir", "copyCert", "addTrustedCert"}

\* the steps whose rejection no catch block takes
Fatal == (Mandatory \ {"appendFile"}) \cup {"sudoTee", "securityKey"}

HostsLine == parsed.ip \o <<" ">> \o localDomain

\* the text of a line of /etc/hosts without its line terminator
HostsKey(line) == SubSeq(line, 1, Len(line) - 1)

\* C4: the steps settle in the order of the code, a step is taken only when
\* the steps before it completed, a rejection of a fatal step is the last
\* thing the run does, and what the completed steps did stays done.
C4_StrictSequenceNoRollback ==
    /\ \A i, j \in 1..Len(settled) :
          i < j => Pos(settled[i].step) < Pos(settled[j].step)
    /\ \A i \in 1..Len(settled) : \A m \in Mandatory :
          Pos(m) < Pos(settled[i].step) =>
              CASE m # "appendFile" -> Done(m)
                [] m = "appendFile" /\ settled[i].step = "sudoTee" -> Failed(m)
                [] OTHER -> Done("appendFile") \/ Done("sudoTee")
    /\ \A i \in 1..Len(settled) :
          (settled[i].step \in Fatal /\ ~settled[i].ok) =>
              /\ i = Len(settled)
              /\ pc = "aborted"
              /\ error = settled[i].step
    /\ (pc = "aborted") = (error # "none")
    /\ Done("outputFile") => boxFile = safeDump(parsed)
    /\ (Done("appendFile") \/ Done("sudoTee")) =>
          /\ hostsFile # <<>>
          /\ HostsKey(hostsFile[Len(hostsFile)]) = HostsLine
    /\ Done("reload") => provisions >= 1
    /\ Done("guestHosts") =>
          /\ guestHosts # <<>>
          /\ guestHosts[Len(guestHosts)] = <<"127.0.0.1 ">> \o localDomain
    /\ Done("ensureDir") => sslDir
    /\ Done("copyCert") => (localDomain \o <<".crt">>) \in staged
    /\ Done("addTrustedCert") =>
          (sslPath \o <<"/">> \o localDomain \o <<".crt">>) \in trusted

\* C4's case: the copy of the certificate failed after the provisioning
C4_Witness ==
    /\ pc = "aborted"
    /\ error = "copyCert"
    /\ Done("reload")
    /\ Done("guestHosts")
    /\ provisions = 1
    /\ hostsFile # <<>>
    /\ boxFile = safeDump(parsed)
    /\ ~Attempted("addTrustedCert")

EnvFailed == Failed("copyEnv") \/ Failed("replaceEnv")
ShFailed == Failed("copySh") \/ Failed("replaceSh")

\* C5: a failure of a template step never ends the run: it is printed,
\* after a failure on craft/.env the run is at or past the copy of
\* scripts/.env.sh, after any failure the run is at a later template step,
\* at the security-key step or past it, only a rejection of the security-key
\* command can have ended it, and a run that reached its end printed the
\* final message.
C5_TemplateFailureDoesNotAbort ==
    /\ error \notin {"copyEnv", "replaceEnv", "copySh", "replaceSh"}
    /\ EnvFailed = InConsole(NoEnvMessage)
    /\ ShFailed = InConsole(NoShMessage)
    /\ EnvFailed => (pc = "copySh" \/ Attempted("copySh"))
    /\ ShFailed => (pc = "securityKey" \/ Attempted("securityKey"))
    /\ (EnvFailed \/ ShFailed) =>
          \/ pc \in {"copySh", "replaceSh", "securityKey", "done"}
          \/ pc = "aborted" /\ error = "securityKey"
    /\ pc = "done" => InConsole(ReadyMessage)

\* C5's case: both templates failed and the run reached its end
C5_Witness ==
    /\ pc = "done"
    /\ Failed("copyEnv")
    /\ Done("copySh")
    /\ Failed("replaceSh")
    /\ InConsole(NoEnvMessage)
    /\ InConsole(NoShMessage)
    /\ InConsole(ReadyMessage)

AllThreeStrings ==
    /\ typeof(argv.remote_db_user) = "string"
    /\ typeof(argv.remote_db_password) = "string"
    /\ typeof(argv.remote_db_host) = "string"

RemoteKeys == {"REMOTE_DB_NAME=", "REMOTE_DB_PASSWORD=", "REMOTE_DB_USER=",
               "REMOTE_DB_HOST=", "REMOTE_DB_PORT=", "REMOTE_DB_SCHEMA="}

PrefixKeys == {"DB_TABLE_PREFIX=", "GLOBAL_DB_TABLE_PREFIX="}

\* the entries whose pattern starts with one of the keys
EntriesFor(entries, keys) == {i \in 1..Len(entries) : entries[i][1][1] \in keys}

Contains(text, part) == IndexOf(text, part) # 0

\* C6: remoteDatabase is present exactly when the user, password and host
\* flags are all strings; when one is not, no REMOTE_DB_ pair is handed to
\* replaceInFile and the REMOTE_DB_ lines of scripts/.env.sh are those of
\* the example.
C6_RemoteAllOrNothing ==
    /\ Truthy(remoteDatabase) = AllThreeStrings
    /\ ~AllThreeStrings =>
          /\ EntriesFor(applied.dotenv, RemoteKeys) = {}
          /\ EntriesFor(applied.dotenvsh, RemoteKeys) = {}
          /\ Done("replaceSh") =>
                \A i \in 1..Len(RemoteShReplacements) :
                    Contains(dotenvsh.text, RemoteShReplacements[i][1])

\* C6's case: user and password given as strings, the host not, the name
\* given, and scripts/.env.sh rewritten
C6_Witness ==
    /\ Done("replaceSh")
    /\ typeof(argv.remote_db_user) = "string"
    /\ typeof(argv.remote_db_password) = "string"
    /\ typeof(argv.remote_db_host) # "string"
    /\ typeof(argv.remote_db_name) = "string"
    /\ Len(applied.dotenvsh) >= Len(BaseShReplacements(parsed.ip))

\* C8: a second run with the same configuration leaves Homestead.yaml as
\* the first run wrote it and adds no second line for the same ip and
\* domain to /etc/hosts.  (In Spec a document with its three collections
\* is one an earlier run wrote.)
C8_RerunIdempotent ==
    /\ \A i, j \in 1..Len(hostsFile) :
          i # j => HostsKey(hostsFile[i]) # HostsKey(hostsFile[j])
    /\ (runs >= 2 /\ config.keys = Collections /\ Done("outputFile")) =>
          boxFile = safeDump(config)

\* C9: the elevated append runs only after the direct append failed with a
\* permission failure, at most once in a run, never after the direct
\* append succeeded, and its failure ends the run before the provisioning.
C9_ElevatedOnlyOnPermission ==
    /\ (pc = "sudoTee" \/ Attempted("sudoTee")) => hostsErr = "EACCES"
    /\ Cardinality({i \in 1..Len(settled) : settled[i].step = "sudoTee"}) <= 1
    /\ Done("appendFile") => (pc # "sudoTee" /\ ~Attempted("sudoTee"))
    /\ Failed("sudoTee") => (pc = "aborted" /\ ~Attempted("reload"))

\* C10: the base pairs are handed to replaceInFile in every run, the
\* REMOTE_DB_ pairs only when remoteDatabase is present, and a pair whose
\* pattern is a table-prefix token only when databasePrefix is present;
\* without a prefix the table-prefix line of a rewritten file is that of
\* the example.
C10_PrefixPairsOnlyWithPrefix ==
    /\ Attempted("replaceEnv") =>
          \A i \in 1..5 : applied.dotenv[i] = DotenvReplacements(parsed.ip)[i]
    /\ Attempted("replaceSh") =>
          \A i \in 1..Len(BaseShReplacements(parsed.ip)) :
              applied.dotenvsh[i] = BaseShReplacements(parsed.ip)[i]
    /\ EntriesFor(applied.dotenvsh, RemoteKeys) # {} => Truthy(remoteDatabase)
    /\ typeof(databasePrefix) = "undefined" =>
          /\ EntriesFor(applied.dotenv, PrefixKeys) = {}
          /\ EntriesFor(applied.dotenvsh, PrefixKeys) = {}
          /\ Done("replaceEnv") => Contains(dotenv.text, KV("DB_TABLE_PREFIX", <<>>))
          /\ Done("replaceSh") =>
                Contains(dotenvsh.text, KV("GLOBAL_DB_TABLE_PREFIX", <<>>))

====
